---- MODULE Spec2Model ----
(***************************************************************************)
(* Model of src/extension.ts of jsdoc-generator: the extension entry point *)
(* (activate / deactivate), the three registered commands, the lazily      *)
(* instantiated JsdocGenerator, the completion item provider with the      *)
(* GenerateJsdocCompletionItem it builds, and getConfig.                   *)
(*                                                                         *)
(* Text is modelled as sequences of one-character strings, positions are   *)
(* zero-based (line, character) pairs as in the editor API, and the three  *)
(* regular expressions of the source are run by a small greedy             *)
(* backtracking matcher.                                                   *)
(***************************************************************************)
EXTENDS Integers, Sequences, FiniteSets, TLC

VARIABLES
  activated,          \* lifecycle of the extension: "inactive", "active", "deactivated"
  registeredCommands, \* command ids registered with vscode.commands.registerCommand
  providerRegistered, \* the completion item provider is registered
  subscriptions,      \* context.subscriptions
  jsdocGenerator,     \* the module-level variable: Undefined or an instance id
  instances,          \* one entry per `new JsdocGenerator()`: the configuration version at creation
  activeTextEditor,   \* vscode.window.activeTextEditor: NoEditor or an editor
  configuration,      \* the host configuration store: name -> value or Undefined
  configVersion,      \* number of configuration changes so far
  messages,           \* messages shown to the user, oldest first
  generatorCalls,     \* calls made on the generator, oldest first
  invocations,        \* number of command invocations so far
  lastCall,           \* the last operation the host ran, with its arguments and result
  document,           \* the lines of the document of the editor
  position,           \* the cursor: [line, character], zero-based
  completion          \* result of the last provideCompletionItems: Null or a list of items

vars == <<activated, registeredCommands, providerRegistered, subscriptions,
          jsdocGenerator, instances, activeTextEditor, configuration,
          configVersion, messages, generatorCalls, invocations, lastCall,
          document, position, completion>>

----------------------------------------------------------------------------
(* Bounds *)

MaxLen == 6
MaxLines == 2
MaxInvocations == 2
MaxConfigChanges == 2

----------------------------------------------------------------------------
(* Text *)

Whitespace == {" "}
Alphabet == {" ", "/", "*", "x"}
ContextLines == {<<" ", "*", "/">>, <<"x">>}

Lines(n) == UNION {[1..k -> Alphabet] : k \in 0..n}

\* String.prototype.slice(from, to) for 0 <= from, to
slice(s, from, to) ==
  LET t == IF to > Len(s) THEN Len(s) ELSE to
  IN  IF from >= t THEN <<>> ELSE SubSeq(s, from + 1, t)

\* String.prototype.slice(from)
sliceFrom(s, from) == slice(s, from, Len(s))

----------------------------------------------------------------------------
(* Regular expressions: a sequence of atoms (a character class, starred or *)
(* not) with optional ^ and $ anchors; matching is leftmost, greedy, with  *)
(* backtracking, as String.prototype.match runs it.                        *)

NoMatch == [index |-> -1, length |-> 0]

Lit(c) == [cls |-> {c}, star |-> FALSE]
Star(cs) == [cls |-> cs, star |-> TRUE]

RECURSIVE Run(_, _, _)
\* number of consecutive characters of s from offset i that are in cls
Run(cls, s, i) ==
  IF i < Len(s) /\ s[i + 1] \in cls THEN 1 + Run(cls, s, i + 1) ELSE 0

RECURSIVE MatchHere(_, _, _, _)
RECURSIVE Backtrack(_, _, _, _, _)
\* end offset of the match of atoms k.. of re at offset i of s, or -1
MatchHere(re, k, s, i) ==
  IF k > Len(re.atoms)
  THEN IF re.toEnd /\ i # Len(s) THEN -1 ELSE i
  ELSE LET a == re.atoms[k]
       IN  IF a.star
           THEN Backtrack(re, k, s, i, Run(a.cls, s, i))
           ELSE IF i < Len(s) /\ s[i + 1] \in a.cls
                THEN MatchHere(re, k + 1, s, i + 1)
                ELSE -1

\* the starred atom k takes n characters; on failure it gives one back
Backtrack(re, k, s, i, n) ==
  LET r == MatchHere(re, k + 1, s, i + n)
  IN  IF r # -1 THEN r
      ELSE IF n = 0 THEN -1
      ELSE Backtrack(re, k, s, i, n - 1)

RECURSIVE Search(_, _, _)
\* the leftmost match of re in s starting at offset p or later
Search(re, s, p) ==
  LET e == MatchHere(re, 1, s, p)
  IN  IF e # -1 THEN [index |-> p, length |-> e - p]
      ELSE IF re.fromStart \/ p >= Len(s) THEN NoMatch
      ELSE Search(re, s, p + 1)

\* s.match(re): NoMatch models null, otherwise match[0] is s[index .. index+length)
match(s, re) == Search(re, s, 0)

----------------------------------------------------------------------------
(* Editor API values *)

Pos(l, c) == [line |-> l, character |-> c]

\* Position.translate(lineDelta, characterDelta)
translate(p, lineDelta, characterDelta) ==
  Pos(p.line + lineDelta, p.character + characterDelta)

isBefore(a, b) ==
  a.line < b.line \/ (a.line = b.line /\ a.character < b.character)

\* new Range(a, b): the constructor orders its two ends
Range(a, b) ==
  IF isBefore(b, a) THEN [start |-> b, end |-> a] ELSE [start |-> a, end |-> b]

\* TextDocument.lineAt(line).text
lineAt(doc, l) == doc[l + 1]

----------------------------------------------------------------------------
(* GenerateJsdocCompletionItem *)

GENERATE_JSDOC == "jsdoc-generator.generateJsdoc"
GENERATE_JSDOC_FILE == "jsdoc-generator.generateJsdocFile"
GENERATE_JSDOC_FILES == "jsdoc-generator.generateJsdocFiles"

\*  /\/\**\s*$/
RangePrefixRegex ==
  [atoms |-> <<Lit("/"), Star({"*"}), Star(Whitespace)>>,
   fromStart |-> FALSE, toEnd |-> TRUE]

\*  /^.*\**\//  : a suffix pattern that skips any text, not only whitespace
RangeSuffixRegex_anyText ==
  [atoms |-> <<Star(Alphabet), Star({"*"}), Lit("/")>>,
   fromStart |-> TRUE, toEnd |-> FALSE]

\*  /^\s*\**\//
RangeSuffixRegex ==
  [atoms |-> <<Star(Whitespace), Star({"*"}), Lit("/")>>,
   fromStart |-> TRUE, toEnd |-> FALSE]

\* retrieveRange that does not move the start back over the opener
retrieveRange_startAtCursor(line, pos) ==
  LET suffix == match(sliceFrom(line, pos.character), RangeSuffixRegex)
  IN  Range(pos, translate(pos, 0, IF suffix # NoMatch THEN suffix.length ELSE 0))

\* retrieveRange that ignores the text after the cursor
retrieveRange_noSuffix(line, pos) ==
  LET prefix == match(slice(line, 0, pos.character), RangePrefixRegex)
  IN  Range(translate(pos, 0, IF prefix # NoMatch THEN -prefix.length ELSE 0), pos)

retrieveRange(line, pos) ==
  LET prefix == match(slice(line, 0, pos.character), RangePrefixRegex)
      suffix == match(sliceFrom(line, pos.character), RangeSuffixRegex)
      start  == translate(pos, 0, IF prefix # NoMatch THEN -prefix.length ELSE 0)
  IN  Range(start, translate(pos, 0, IF suffix # NoMatch THEN suffix.length ELSE 0))

\* an item whose follow-up command is not one that activate registers
GenerateJsdocCompletionItem_otherCommand(line, pos) ==
  [label      |-> "/** Autogenerated JSDoc */",
   kind       |-> "Snippet",
   insertText |-> <<>>,
   sortText   |-> <<0>>,
   range      |-> retrieveRange(line, pos),
   command    |-> [title |-> "Generate JSDoc", command |-> "jsdoc-generator.generate"]]

\* the constructor; sortText '\0' is the one-character string of code 0
GenerateJsdocCompletionItem(line, pos) ==
  [label      |-> "/** Autogenerated JSDoc */",
   kind       |-> "Snippet",
   insertText |-> <<>>,
   sortText   |-> <<0>>,
   range      |-> retrieveRange(line, pos),
   command    |-> [title |-> "Generate JSDoc", command |-> GENERATE_JSDOC]]

----------------------------------------------------------------------------
(* The completion item provider *)

NotQueried == [tag |-> "none", items |-> <<>>]
Null == [tag |-> "null", items |-> <<>>]
Items(list) == [tag |-> "items", items |-> list]

\*  /\s*\/\*\*\s*$/  : the pattern without its ^ anchor
OfferRegex_unanchored ==
  [atoms |-> <<Star(Whitespace), Lit("/"), Lit("*"), Lit("*"), Star(Whitespace)>>,
   fromStart |-> FALSE, toEnd |-> TRUE]

\*  /^\s*\/\*\*\s*$/
OfferRegex ==
  [atoms |-> <<Star(Whitespace), Lit("/"), Lit("*"), Lit("*"), Star(Whitespace)>>,
   fromStart |-> TRUE, toEnd |-> TRUE]

provideCompletionItems(doc, pos) ==
  LET line   == lineAt(doc, pos.line)
      prefix == slice(line, 0, pos.character)
  IN  IF match(prefix, OfferRegex) # NoMatch
      THEN Items(<<GenerateJsdocCompletionItem(line, pos)>>)
      ELSE Null

----------------------------------------------------------------------------
(* Host values *)

Undefined == "undefined"
NoGenerator == 0
Editors == {"editor1", "editor2"}
ConfigNames == {"section.first", "section.second"}
ConfigValues == {"v1", "v2"}
DefaultValues == {"v1", "d"}

NO_EDITOR_MESSAGE == "Unable to generate JSDoc: no editor has been selected."
NOT_AVAILABLE_MESSAGE == "This function is not available yet."
COMMAND_NOT_FOUND_MESSAGE == "command not found"

Call(op, name, defaultValue, result) ==
  [op |-> op, name |-> name, defaultValue |-> defaultValue, result |-> result]

HostCall(op) == Call(op, "", "", "")

\* a call jsdocGenerator.<method>(editor), made on the instance the variable holds
GeneratorCall(method, editor, instance) ==
  [method |-> method, editor |-> editor, instance |-> instance,
   configVersion |-> configVersion]

----------------------------------------------------------------------------
(* getConfig *)

\* getConfig that never consults the store
getConfig_defaultOnly(configurationName, defaultValue) == defaultValue

\* vscode.workspace.getConfiguration().get(name, default): the stored value,
\* or the default when the store has none
getConfig(configurationName, defaultValue) ==
  IF configuration[configurationName] # Undefined
  THEN configuration[configurationName]
  ELSE defaultValue

----------------------------------------------------------------------------
(* The generator and the command handlers *)

\* an instantiation without the guard: every call makes a new generator
lazyInstantiateJsdocGenerator_always ==
  /\ jsdocGenerator' = Len(instances) + 1
  /\ instances' = Append(instances, configVersion)

lazyInstantiateJsdocGenerator ==
  IF jsdocGenerator = NoGenerator
  THEN /\ jsdocGenerator' = Len(instances) + 1
       /\ instances' = Append(instances, configVersion)
  ELSE UNCHANGED <<jsdocGenerator, instances>>

generateJsdoc ==
  /\ lazyInstantiateJsdocGenerator
  /\ IF activeTextEditor # Undefined
     THEN /\ generatorCalls' = Append(generatorCalls,
                 GeneratorCall("generateJsdoc", activeTextEditor, jsdocGenerator'))
          /\ UNCHANGED messages
     ELSE /\ messages' = Append(messages, [kind |-> "error", text |-> NO_EDITOR_MESSAGE])
          /\ UNCHANGED generatorCalls

\* the handler of the file command calling the method of the cursor command
generateJsdocFile_wrongMethod ==
  /\ lazyInstantiateJsdocGenerator
  /\ IF activeTextEditor # Undefined
     THEN /\ generatorCalls' = Append(generatorCalls,
                 GeneratorCall("generateJsdoc", activeTextEditor, jsdocGenerator'))
          /\ UNCHANGED messages
     ELSE /\ messages' = Append(messages, [kind |-> "error", text |-> NO_EDITOR_MESSAGE])
          /\ UNCHANGED generatorCalls

generateJsdocFile ==
  /\ lazyInstantiateJsdocGenerator
  /\ IF activeTextEditor # Undefined
     THEN /\ generatorCalls' = Append(generatorCalls,
                 GeneratorCall("generateJsdocFile", activeTextEditor, jsdocGenerator'))
          /\ UNCHANGED messages
     ELSE /\ messages' = Append(messages, [kind |-> "error", text |-> NO_EDITOR_MESSAGE])
          /\ UNCHANGED generatorCalls

\* the workspace command implemented as a run over the active editor
generateJsdocFiles_implemented ==
  /\ lazyInstantiateJsdocGenerator
  /\ messages' = Append(messages, [kind |-> "warning", text |-> NOT_AVAILABLE_MESSAGE])
  /\ IF activeTextEditor # Undefined
     THEN generatorCalls' = Append(generatorCalls,
                 GeneratorCall("generateJsdocFile", activeTextEditor, jsdocGenerator'))
     ELSE UNCHANGED generatorCalls

generateJsdocFiles ==
  /\ lazyInstantiateJsdocGenerator
  /\ messages' = Append(messages, [kind |-> "warning", text |-> NOT_AVAILABLE_MESSAGE])
  /\ UNCHANGED generatorCalls

\* the host runs the handler registered under the command id
executeCommand(id) ==
  /\ id \in registeredCommands
  /\ invocations < MaxInvocations
  /\ invocations' = invocations + 1
  /\ lastCall' = HostCall(id)
  /\ IF id = GENERATE_JSDOC THEN generateJsdoc
     ELSE IF id = GENERATE_JSDOC_FILE THEN generateJsdocFile
     ELSE generateJsdocFiles

----------------------------------------------------------------------------
(* activate / deactivate *)

\* an activation that instantiates the generator at once
activate_eager ==
  /\ activated = "inactive"
  /\ activated' = "active"
  /\ providerRegistered' = TRUE
  /\ registeredCommands' = registeredCommands \cup
        {GENERATE_JSDOC, GENERATE_JSDOC_FILE, GENERATE_JSDOC_FILES}
  /\ subscriptions' = subscriptions \o
        <<"generateJsdoc", "generateJsdocFile", "generateJsdocFiles",
          "generateJsdocAutocompletion">>
  /\ lazyInstantiateJsdocGenerator
  /\ lastCall' = HostCall("activate")
  /\ UNCHANGED <<activeTextEditor, configuration, configVersion,
                 messages, generatorCalls, invocations, document, position, completion>>

activate ==
  /\ activated = "inactive"
  /\ activated' = "active"
  /\ providerRegistered' = TRUE
  /\ registeredCommands' = registeredCommands \cup
        {GENERATE_JSDOC, GENERATE_JSDOC_FILE, GENERATE_JSDOC_FILES}
  /\ subscriptions' = subscriptions \o
        <<"generateJsdoc", "generateJsdocFile", "generateJsdocFiles",
          "generateJsdocAutocompletion">>
  /\ lastCall' = HostCall("activate")
  /\ UNCHANGED <<jsdocGenerator, instances, activeTextEditor, configuration, configVersion,
                 messages, generatorCalls, invocations, document, position, completion>>

\* deactivate() itself is empty; the host then disposes context.subscriptions
deactivate ==
  /\ activated = "active"
  /\ activated' = "deactivated"
  /\ providerRegistered' = FALSE
  /\ registeredCommands' = {}
  /\ subscriptions' = <<>>
  /\ lastCall' = HostCall("deactivate")
  /\ UNCHANGED <<jsdocGenerator, instances, activeTextEditor, configuration, configVersion,
                 messages, generatorCalls, invocations, document, position, completion>>

----------------------------------------------------------------------------
(* Actions of the host *)

GenerateJsdocCommand ==
  /\ executeCommand(GENERATE_JSDOC)
  /\ UNCHANGED <<activated, registeredCommands, providerRegistered, subscriptions,
                 activeTextEditor, configuration, configVersion,
                 document, position, completion>>

GenerateJsdocFileCommand ==
  /\ executeCommand(GENERATE_JSDOC_FILE)
  /\ UNCHANGED <<activated, registeredCommands, providerRegistered, subscriptions,
                 activeTextEditor, configuration, configVersion,
                 document, position, completion>>

GenerateJsdocFilesCommand ==
  /\ executeCommand(GENERATE_JSDOC_FILES)
  /\ UNCHANGED <<activated, registeredCommands, providerRegistered, subscriptions,
                 activeTextEditor, configuration, configVersion,
                 document, position, completion>>

\* the user focuses another editor, or none
ChangeActiveTextEditor ==
  \E e \in Editors \cup {Undefined} :
    /\ e # activeTextEditor
    /\ activeTextEditor' = e
    /\ lastCall' = HostCall("changeActiveTextEditor")
    /\ UNCHANGED <<activated, registeredCommands, providerRegistered, subscriptions,
                   jsdocGenerator, instances, configuration, configVersion,
                   messages, generatorCalls, invocations, document, position, completion>>

\* the user sets or removes a setting
UpdateConfiguration ==
  \E n \in ConfigNames, v \in ConfigValues \cup {Undefined} :
    /\ configVersion < MaxConfigChanges
    /\ v # configuration[n]
    /\ configuration' = [configuration EXCEPT ![n] = v]
    /\ configVersion' = configVersion + 1
    /\ lastCall' = HostCall("updateConfiguration")
    /\ UNCHANGED <<activated, registeredCommands, providerRegistered, subscriptions,
                   jsdocGenerator, instances, activeTextEditor,
                   messages, generatorCalls, invocations, document, position, completion>>

\* a caller reads a setting through getConfig
GetConfig ==
  \E n \in ConfigNames, d \in DefaultValues :
    /\ lastCall' = Call("getConfig", n, d, getConfig(n, d))
    /\ UNCHANGED <<activated, registeredCommands, providerRegistered, subscriptions,
                   jsdocGenerator, instances, activeTextEditor, configuration, configVersion,
                   messages, generatorCalls, invocations, document, position, completion>>

\* the host asks the registered provider for completions at the cursor
ProvideCompletionItems ==
  /\ providerRegistered
  /\ completion' = provideCompletionItems(document, position)
  /\ lastCall' = HostCall("provideCompletionItems")
  /\ UNCHANGED <<activated, registeredCommands, providerRegistered, subscriptions,
                 jsdocGenerator, instances, activeTextEditor, configuration, configVersion,
                 messages, generatorCalls, invocations, document, position>>

\* the text of doc with the range r replaced by text
replace(doc, r, text) ==
  LET first == lineAt(doc, r.start.line)
      last  == lineAt(doc, r.end.line)
      new   == slice(first, 0, r.start.character) \o text \o sliceFrom(last, r.end.character)
  IN  SubSeq(doc, 1, r.start.line) \o <<new>> \o SubSeq(doc, r.end.line + 2, Len(doc))

\* the user accepts the offered item: the host replaces item.range by
\* item.insertText, puts the cursor after it and runs item.command
AcceptItem ==
  /\ completion.tag = "items"
  /\ LET item == completion.items[1]
     IN  /\ document' = replace(document, item.range, item.insertText)
         /\ position' = translate(item.range.start, 0, Len(item.insertText))
         /\ IF item.command.command \in registeredCommands
            THEN executeCommand(item.command.command)
            ELSE /\ invocations < MaxInvocations
                 /\ invocations' = invocations + 1
                 /\ lastCall' = HostCall(item.command.command)
                 /\ messages' = Append(messages,
                        [kind |-> "error", text |-> COMMAND_NOT_FOUND_MESSAGE])
                 /\ UNCHANGED <<jsdocGenerator, instances, generatorCalls>>
  /\ completion' = NotQueried
  /\ UNCHANGED <<activated, registeredCommands, providerRegistered, subscriptions,
                 activeTextEditor, configuration, configVersion>>

----------------------------------------------------------------------------
(* Specifications *)

InitExtension ==
  /\ activated = "inactive"
  /\ registeredCommands = {}
  /\ providerRegistered = FALSE
  /\ subscriptions = <<>>
  /\ jsdocGenerator = NoGenerator
  /\ instances = <<>>
  /\ configuration = [n \in ConfigNames |-> Undefined]
  /\ configVersion = 0
  /\ messages = <<>>
  /\ generatorCalls = <<>>
  /\ invocations = 0
  /\ lastCall = HostCall("load")
  /\ completion = NotQueried

\* the commands, the generator and the configuration; the document is fixed
Init ==
  /\ InitExtension
  /\ activeTextEditor = Undefined
  /\ document = <<<<>>>>
  /\ position = Pos(0, 0)

Next ==
  \/ activate
  \/ deactivate
  \/ GenerateJsdocCommand
  \/ GenerateJsdocFileCommand
  \/ GenerateJsdocFilesCommand
  \/ ChangeActiveTextEditor
  \/ UpdateConfiguration
  \/ GetConfig

Spec == Init /\ [][Next]_vars

\* the completion provider: any line under the cursor, with the lines around
\* it taken from ContextLines, in the editor that has the focus
InitCompletion ==
  /\ InitExtension
  /\ activeTextEditor = "editor1"
  /\ \E line \in Lines(MaxLen), nBefore \in 0..(MaxLines - 1) :
       \E nAfter \in 0..(MaxLines - 1 - nBefore) :
         \E before \in [1..nBefore -> ContextLines], after \in [1..nAfter -> ContextLines],
            c \in 0..Len(line) :
           /\ document = before \o <<line>> \o after
           /\ position = Pos(nBefore, c)

NextCompletion ==
  \/ activate
  \/ ProvideCompletionItems
  \/ AcceptItem

SpecCompletion == InitCompletion /\ [][NextCompletion]_vars

----------------------------------------------------------------------------
(* Vocabulary of the properties *)

CommandIds == {GENERATE_JSDOC, GENERATE_JSDOC_FILE, GENERATE_JSDOC_FILES}

\* the step is an invocation of the command id
Invokes(id) == invocations' = invocations + 1 /\ lastCall'.op = id

MethodOf(id) == IF id = GENERATE_JSDOC THEN "generateJsdoc" ELSE "generateJsdocFile"

NoEditorError == [kind |-> "error", text |-> NO_EDITOR_MESSAGE]
NotAvailableWarning == [kind |-> "warning", text |-> NOT_AVAILABLE_MESSAGE]

\* the step appends one call of the method on the editor and nothing else
OneGeneratorCall(method, editor) ==
  /\ Len(generatorCalls') = Len(generatorCalls) + 1
  /\ SubSeq(generatorCalls', 1, Len(generatorCalls)) = generatorCalls
  /\ generatorCalls'[Len(generatorCalls')].method = method
  /\ generatorCalls'[Len(generatorCalls')].editor = editor

CursorLine == lineAt(document, position.line)
CursorPrefix == slice(CursorLine, 0, position.character)
CursorSuffix == sliceFrom(CursorLine, position.character)

Offered == completion.tag = "items"
OfferedRange == completion.items[1].range

AllWhitespace(t) == \A i \in 1..Len(t) : t[i] \in Whitespace

\* t is optional whitespace, then exactly the opener, then optional whitespace
IsOpenerText(t) ==
  \E i \in 0..Len(t) :
    /\ i + 3 <= Len(t)
    /\ AllWhitespace(SubSeq(t, 1, i))
    /\ SubSeq(t, i + 1, i + 3) = <<"/", "*", "*">>
    /\ AllWhitespace(SubSeq(t, i + 4, Len(t)))

\* t is optional whitespace, any number of stars, then a slash
IsCloserText(t) ==
  /\ Len(t) >= 1
  /\ t[Len(t)] = "/"
  /\ \E a \in 0..(Len(t) - 1) :
       /\ \A i \in 1..a : t[i] \in Whitespace
       /\ \A i \in (a + 1)..(Len(t) - 1) : t[i] = "*"

\* length of the closer that t starts with, 0 when it starts with none
CloserLength(t) ==
  IF \E n \in 1..Len(t) : IsCloserText(SubSeq(t, 1, n))
  THEN CHOOSE n \in 1..Len(t) : IsCloserText(SubSeq(t, 1, n))
  ELSE 0

\* column of the slash of the opener in an opener text
OpenerColumn(t) == CHOOSE i \in 0..(Len(t) - 1) : t[i + 1] = "/"

\* offset after the star-slash that t starts with after optional whitespace, or -1
StarSlashEnd(t) ==
  LET a == Run(Whitespace, t, 0)
  IN  IF a + 2 <= Len(t) /\ t[a + 1] = "*" /\ t[a + 2] = "/" THEN a + 2 ELSE -1

\* the range r contains the text from a to b
Covers(r, a, b) == ~isBefore(a, r.start) /\ ~isBefore(r.end, b)

----------------------------------------------------------------------------
(* C1: an invocation of generateJsdoc or generateJsdocFile without an      *)
(* active editor shows the error message and calls no generator method;    *)
(* with an active editor it calls the matching generator method exactly    *)
(* once with that editor and shows no message.                             *)
C1_EditorOrError ==
  [][\A id \in {GENERATE_JSDOC, GENERATE_JSDOC_FILE} :
       Invokes(id) =>
         IF activeTextEditor = Undefined
         THEN /\ messages' = Append(messages, NoEditorError)
              /\ generatorCalls' = generatorCalls
         ELSE /\ OneGeneratorCall(MethodOf(id), activeTextEditor)
              /\ messages' = messages]_vars

\* both outcomes have happened: one invocation failed, one called generateJsdocFile
C1_Witness ==
  /\ invocations = 2
  /\ messages = <<NoEditorError>>
  /\ Len(generatorCalls) = 1
  /\ generatorCalls[1].method = "generateJsdocFile"
  /\ generatorCalls[1].editor = "editor2"

(* C6: an invocation of generateJsdocFiles, with or without an active      *)
(* editor, shows the not-available warning, calls no generator method and  *)
(* leaves the document alone.                                              *)
C6_WorkspaceCommandIsStub ==
  [][Invokes(GENERATE_JSDOC_FILES) =>
       /\ messages' = Append(messages, NotAvailableWarning)
       /\ generatorCalls' = generatorCalls
       /\ document' = document]_vars

\* the stub has just run while an editor had the focus
C6_Witness ==
  /\ lastCall.op = GENERATE_JSDOC_FILES
  /\ activeTextEditor \in Editors
  /\ messages # <<>>
  /\ messages[Len(messages)] = NotAvailableWarning
  /\ generatorCalls = <<>>

(* C7: the value getConfig returned is the one the store holds under the   *)
(* name at the time of the call, whatever changes came before, and the     *)
(* caller's default when the store holds none.                             *)
C7_GetConfigReadsStore ==
  lastCall.op = "getConfig" =>
    lastCall.result =
      IF configuration[lastCall.name] \in ConfigValues
      THEN configuration[lastCall.name]
      ELSE lastCall.defaultValue

\* a read after two changes returns the stored value, which is not the default
C7_Witness ==
  /\ lastCall.op = "getConfig"
  /\ configVersion = 2
  /\ lastCall.result = "v2"
  /\ lastCall.defaultValue = "d"

(* C8, as stated: after a command invocation the generator in use was      *)
(* created under the current configuration, never before the last change.  *)
C8_RebuiltOnConfigurationChange ==
  (lastCall.op \in CommandIds /\ jsdocGenerator # NoGenerator) =>
    instances[jsdocGenerator] = configVersion

(* C8, amended: the generator is not rebuilt; once it exists, no step,     *)
(* configuration change or command invocation, replaces it or creates      *)
(* another.                                                                *)
C8_GeneratorKeptAcrossChanges ==
  [][jsdocGenerator # NoGenerator =>
       (jsdocGenerator' = jsdocGenerator /\ instances' = instances)]_vars

\* a second invocation ran after a configuration change, on the old instance
C8_Witness ==
  /\ lastCall.op \in CommandIds
  /\ invocations = 2
  /\ jsdocGenerator = 1
  /\ instances[1] < configVersion
  /\ Len(generatorCalls) = 2
  /\ generatorCalls[1].configVersion < generatorCalls[2].configVersion
  /\ generatorCalls[1].instance = generatorCalls[2].instance

(* C9: no generator exists before the first command invocation (activate   *)
(* creates none); from the first invocation of any command on there is     *)
(* exactly one; every generator call is made on that instance.             *)
C9_LazyAtMostOnce ==
  /\ Len(instances) = (IF invocations = 0 THEN 0 ELSE 1)
  /\ jsdocGenerator = Len(instances)
  /\ \A i \in DOMAIN generatorCalls :
       generatorCalls[i].instance # NoGenerator /\ generatorCalls[i].instance = 1

\* the stub ran first and created the generator, a later command called it
C9_Witness ==
  /\ activated = "active"
  /\ invocations = 2
  /\ messages = <<NotAvailableWarning>>
  /\ lastCall.op = GENERATE_JSDOC
  /\ Len(generatorCalls) = 1
  /\ jsdocGenerator = 1

----------------------------------------------------------------------------
C3_SameLineCase == Offered /\ StarSlashEnd(CursorSuffix) # -1

\* the cursor is right after the opener, the rest of the line is blank and the
\* next line starts with a star-slash
C3_NextLineCase ==
  /\ Offered
  /\ AllWhitespace(CursorSuffix)
  /\ position.line + 2 <= Len(document)
  /\ StarSlashEnd(lineAt(document, position.line + 1)) # -1

C3_OpenerStart == Pos(position.line, OpenerColumn(CursorPrefix))

(* C3, as stated: with the closer on the same line or on the next line,    *)
(* the range of the offered item contains both the opener and the closer.  *)
C3_RangeCoversOpenerAndCloser ==
  /\ C3_SameLineCase =>
       Covers(OfferedRange, C3_OpenerStart,
              Pos(position.line, position.character + StarSlashEnd(CursorSuffix)))
  /\ C3_NextLineCase =>
       Covers(OfferedRange, C3_OpenerStart,
              Pos(position.line + 1, StarSlashEnd(lineAt(document, position.line + 1))))

(* C3, amended: with the closer on the same line the range is exactly the  *)
(* opener through the closer; with the closer on the next line the range   *)
(* is the opener up to the cursor and the closer stays outside it.         *)
C3_RangeCoversSameLineOnly ==
  /\ C3_SameLineCase =>
       OfferedRange =
         [start |-> C3_OpenerStart,
          end   |-> Pos(position.line, position.character + StarSlashEnd(CursorSuffix))]
  /\ C3_NextLineCase =>
       /\ OfferedRange = [start |-> C3_OpenerStart, end |-> position]
       /\ ~Covers(OfferedRange, C3_OpenerStart,
                  Pos(position.line + 1, StarSlashEnd(lineAt(document, position.line + 1))))

\* the item was offered with the closer on the line below the cursor
C3_Witness ==
  /\ C3_NextLineCase
  /\ CursorLine = <<"/", "*", "*">>
  /\ lineAt(document, position.line + 1) = <<" ", "*", "/">>

(* C4: a query returns exactly one item when the text before the cursor is *)
(* optional whitespace, the opener, optional whitespace, and null for      *)
(* every other text before the cursor, whatever follows the cursor.        *)
C4_OfferedIffOpenerPrefix ==
  lastCall.op = "provideCompletionItems" =>
    IF IsOpenerText(CursorPrefix)
    THEN completion.tag = "items" /\ Len(completion.items) = 1
    ELSE completion = Null

\* an item was offered although other text follows the cursor
C4_Witness ==
  /\ lastCall.op = "provideCompletionItems"
  /\ Offered
  /\ \E i \in 1..Len(CursorSuffix) : CursorSuffix[i] = "x"

(* C5: every character inside the range of an offered item is whitespace,  *)
(* a slash or a star, the slashes being the one of the opener and at most  *)
(* the one of the closer; all other text of the line is outside the range. *)
C5_RangeHoldsOnlyDelimiters ==
  Offered =>
    LET inside == slice(CursorLine, OfferedRange.start.character, OfferedRange.end.character)
    IN  /\ \A i \in 1..Len(inside) : inside[i] \in Whitespace \cup {"/", "*"}
        /\ Cardinality({i \in 1..Len(inside) : inside[i] = "/"}) <= 2
        /\ \A k \in 1..Len(CursorLine) :
             CursorLine[k] \notin Whitespace \cup {"/", "*"} =>
               (k <= OfferedRange.start.character \/ k > OfferedRange.end.character)

\* opener and closer are in the range and code follows the closer on the line
C5_Witness ==
  /\ Offered
  /\ CloserLength(CursorSuffix) > 0
  /\ OfferedRange.end.character < Len(CursorLine)
  /\ CursorLine[OfferedRange.end.character + 1] = "x"

\* every offered item inserts nothing and names the registered cursor command
C10_ItemNamesRegisteredCommand ==
  Offered =>
    /\ \A i \in DOMAIN completion.items :
         /\ completion.items[i].insertText = <<>>
         /\ completion.items[i].command.command = GENERATE_JSDOC
         /\ completion.items[i].command.command \in registeredCommands
    /\ \A d \in {"generateJsdoc", "generateJsdocFile", "generateJsdocFiles",
                 "generateJsdocAutocompletion"} :
         \E k \in DOMAIN subscriptions : subscriptions[k] = d

\* accepting an item removes opener and closer from the line and then does
\* what the cursor command does
C10_AcceptRemovesThenGenerates ==
  (Offered /\ completion'.tag = "none") =>
    /\ lineAt(document', position.line) =
         slice(CursorLine, 0, OpenerColumn(CursorPrefix))
           \o sliceFrom(CursorSuffix, CloserLength(CursorSuffix))
    /\ Len(document') = Len(document)
    /\ Invokes(GENERATE_JSDOC)
    /\ IF activeTextEditor = Undefined
       THEN messages' = Append(messages, NoEditorError) /\ generatorCalls' = generatorCalls
       ELSE OneGeneratorCall("generateJsdoc", activeTextEditor) /\ messages' = messages

(* C10: every offered item carries an empty insertion text and the command *)
(* jsdoc-generator.generateJsdoc, which activate has registered and pushed *)
(* to the subscriptions with the provider; accepting the item replaces the *)
(* range by nothing and then runs that command.                            *)
C10_ItemRunsGenerateJsdoc ==
  []C10_ItemNamesRegisteredCommand /\ [][C10_AcceptRemovesThenGenerates]_vars

\* an item was accepted: the line lost opener and closer and generateJsdoc ran
C10_Witness ==
  /\ lastCall.op = GENERATE_JSDOC
  /\ completion = NotQueried
  /\ Len(generatorCalls) = 1
  /\ generatorCalls[1].method = "generateJsdoc"
  /\ CursorLine = <<" ", "x">>

====
